---- MODULE Spec2Model ----
(***************************************************************************)
(* Model of the textbox extraction state machine of poketext-gen4          *)
(* (src/legacy-code/main.cpp, function decode and the loop of main that    *)
(* feeds it).                                                              *)
(*                                                                         *)
(* A frame is what decode reads from it: the code textbox() returns for    *)
(* it, the result of empty_textbox() on it, the result of                  *)
(* compare_textboxes() between the history buffer and it, and the length   *)
(* of the text the OCR engine recognizes in its textbox rectangle.  A      *)
(* value decode does not read on a frame is fixed to a default, so that    *)
(* two frames that differ only in values never read are one frame.         *)
(* Frames are numbered in presentation order; the history buffer           *)
(* (old_frame) is modelled by the number of the frame whose textbox        *)
(* rectangle it holds, and a recognized text by the frame and rectangle    *)
(* it was read from.                                                       *)
(***************************************************************************)
EXTENDS Integers, Sequences, FiniteSets, TLC

VARIABLES
    old_textbox,       \* static int old_textbox (main.cpp:350)
    insta_textbox,     \* static bool insta_textbox (main.cpp:352)
    only_second_line,  \* static bool only_second_line (main.cpp:353)
    old_frame,         \* number of the frame copied into old_frame, 0 = never written
    frame_num,         \* number of frames decoded so far
    output,            \* what was written to output_text.txt, in order
    log,               \* one record per decoded frame: what decode read and did
    run,               \* "running", "done" once the stream has ended, "failed" after exit(1)
    call,              \* a function of the program called on its own: its name and arguments
    ret                \* <<>> until that call returns, then <<the value returned>>

machine == <<old_textbox, insta_textbox, only_second_line, old_frame, frame_num,
             output, log, run>>

vars == <<old_textbox, insta_textbox, only_second_line, old_frame, frame_num,
          output, log, run, call, ret>>

\* ---------------------------------------------------------------- bounds
\* frames decoded in a run of the machine on arbitrary frames
MaxFrames == 5
\* frames decoded in a run of the machine on the frames of the end-to-end scenarios
ScenarioFrames == 6

\* pixels in a rectangle handed to white_rectangle
MaxPixels == 3

\* largest of the small frame widths the geometry is resolved for
MaxWidth == 12

\* ------------------------------------------------------------- constants
\* return values of textbox() (main.cpp:80)
NONE == 0
OPEN == 1
SCROLL_A == 2
SCROLL_B == 3
SCROLL_C == 4
LARGE_TEXT == 5
\* strlen(text) > 3 (main.cpp:399, 445)
InstaLen == 3

Codes == {NONE, OPEN, SCROLL_A, SCROLL_B, SCROLL_C, LARGE_TEXT}
OpenCodes == {OPEN, LARGE_TEXT}
ScrollCodes == {SCROLL_A, SCROLL_B, SCROLL_C}

\* lengths of recognized texts the OCR engine may return: "abc" and "Hello"
TextLens == {3, 5}

\* ------------------------------------------------------- capture requests
\* save_textbox / save_second_line followed by read_text: the buffer read
\* ("rgb_frame" or "old_frame"), the number of the frame whose pixels it
\* holds, and the rectangle cropped.
Capture(buf, n, rect) == [buf |-> buf, frame |-> n, rect |-> rect]

\* file << text [<< std::endl]: the text recognized by a capture, and whether
\* a line break follows it.
Written(cap, endl) == [cap |-> cap, endl |-> endl]

\* The local state of one pass through the body of decode's loop.
Pass(insta, second) == [insta |-> insta, second |-> second, caps |-> <<>>, out |-> <<>>]

\* mutant of JustOpened: insta_textbox is never set
JustOpened_NeverInsta(s, f, n) ==
    [s EXCEPT !.caps = Append(@, Capture("rgb_frame", n, "textbox")),
              !.insta = IF f.empty THEN FALSE ELSE @]

\* mutant of JustOpened: strlen(text) >= 3
JustOpened_AtLeast(s, f, n) ==
    [s EXCEPT !.caps = Append(@, Capture("rgb_frame", n, "textbox")),
              !.insta = IF f.empty THEN FALSE
                        ELSE IF f.len >= InstaLen THEN TRUE
                        ELSE @]

\* mutant of JustOpened: the text recognized from the current frame is written
JustOpened_Writes(s, f, n) ==
    [s EXCEPT !.caps = Append(@, Capture("rgb_frame", n, "textbox")),
              !.out = Append(@, Written(Capture("rgb_frame", n, "textbox"), TRUE)),
              !.insta = IF f.empty THEN FALSE
                        ELSE IF f.len > InstaLen THEN TRUE
                        ELSE @]

\* main.cpp:393-400 and 441-446: capture the current frame, decide insta_textbox
JustOpened(s, f, n) ==
    [s EXCEPT !.caps = Append(@, Capture("rgb_frame", n, "textbox")),
              !.insta = IF f.empty THEN FALSE
                        ELSE IF f.len > InstaLen THEN TRUE
                        ELSE @]

\* mutant of CapturePrevious: only_second_line is not reset
CapturePrevious_KeepPending(s, o) ==
    IF s.second = FALSE
    THEN [s EXCEPT !.caps = Append(@, Capture("old_frame", o, "textbox")),
                   !.out = Append(@, Written(Capture("old_frame", o, "textbox"), TRUE))]
    ELSE [s EXCEPT !.caps = Append(@, Capture("old_frame", o, "second_line")),
                   !.out = Append(@, Written(Capture("old_frame", o, "second_line"), TRUE))]

\* mutant of CapturePrevious: the full rectangle whatever only_second_line
CapturePrevious_AlwaysFull(s, o) ==
    [s EXCEPT !.caps = Append(@, Capture("old_frame", o, "textbox")),
              !.out = Append(@, Written(Capture("old_frame", o, "textbox"), TRUE)),
              !.second = FALSE]

\* main.cpp:407-421 and 425-439: capture the history buffer, write the text
CapturePrevious(s, o) ==
    IF s.second = FALSE
    THEN [s EXCEPT !.caps = Append(@, Capture("old_frame", o, "textbox")),
                   !.out = Append(@, Written(Capture("old_frame", o, "textbox"), TRUE))]
    ELSE [s EXCEPT !.caps = Append(@, Capture("old_frame", o, "second_line")),
                   !.out = Append(@, Written(Capture("old_frame", o, "second_line"), TRUE)),
                   !.second = FALSE]

\* mutant of Closed: the test new_textbox == 0 is missing
Closed_AnyCode(s, f, o) ==
    IF s.insta = FALSE THEN CapturePrevious(s, o) ELSE s

\* main.cpp:405-422
Closed(s, f, o) ==
    IF f.code = NONE /\ s.insta = FALSE THEN CapturePrevious(s, o) ELSE s

\* mutant of Swapped: the current frame is captured before the history buffer
Swapped_CurrentFirst(s, f, o, n) ==
    IF f.code \in OpenCodes /\ f.changed /\ s.insta = FALSE
    THEN CapturePrevious(JustOpened(s, f, n), o)
    ELSE s

\* main.cpp:423-447
Swapped(s, f, o, n) ==
    IF f.code \in OpenCodes /\ f.changed /\ s.insta = FALSE
    THEN JustOpened(CapturePrevious(s, o), f, n)
    ELSE s

\* mutant of Flicker: insta_textbox is not cleared
Flicker_Keep(s, f) == s

\* main.cpp:448-451
Flicker(s, f) ==
    IF f.code \in OpenCodes /\ f.changed /\ s.insta = TRUE
    THEN [s EXCEPT !.insta = FALSE]
    ELSE s

\* mutant of ScrollStarted: the text is followed by std::endl
ScrollStarted_Endl(s, f, o) ==
    IF f.code \in ScrollCodes /\ s.insta = FALSE
    THEN [s EXCEPT !.caps = Append(@, Capture("old_frame", o, "textbox")),
                   !.out = Append(@, Written(Capture("old_frame", o, "textbox"), TRUE))]
    ELSE s

\* main.cpp:452-458
ScrollStarted(s, f, o) ==
    IF f.code \in ScrollCodes /\ s.insta = FALSE
    THEN [s EXCEPT !.caps = Append(@, Capture("old_frame", o, "textbox")),
                   !.out = Append(@, Written(Capture("old_frame", o, "textbox"), FALSE))]
    ELSE s

\* mutant of Transition: the branch on a scrolling previous frame is missing
Transition_NoPending(s, old, f, o, n) ==
    IF old = NONE
    THEN IF f.code \in OpenCodes THEN JustOpened(s, f, n) ELSE s
    ELSE IF old \in OpenCodes
    THEN ScrollStarted(Flicker(Swapped(Closed(s, f, o), f, o, n), f), f, o)
    ELSE s

\* main.cpp:388-463: the if / else if chain on old_textbox
Transition(s, old, f, o, n) ==
    IF old = NONE
    THEN IF f.code \in OpenCodes THEN JustOpened(s, f, n) ELSE s
    ELSE IF old \in OpenCodes
    THEN ScrollStarted(Flicker(Swapped(Closed(s, f, o), f, o, n), f), f, o)
    ELSE IF old \in ScrollCodes
    THEN [s EXCEPT !.second = TRUE]
    ELSE s

\* mutant of ClearInsta: insta_textbox survives a frame without textbox
ClearInsta_Skip(s, f) == s

\* main.cpp:465-466
ClearInsta(s, f) == IF f.code = NONE THEN [s EXCEPT !.insta = FALSE] ELSE s

\* main.cpp:388-466
Body(s, old, f, o, n) == ClearInsta(Transition(s, old, f, o, n), f)

\* mutant of copy_data: the history buffer keeps what it held
copy_data_Skip(old_data, data) == old_data

\* main.cpp:314-333: the textbox rectangle of data (copy_data_part) is copied
\* over that of old_data; inside that rectangle old_data then holds the frame
\* that data holds
copy_data(old_data, data) == data

\* ---------------------------------------------------------------- frames
\* What decode reads from a frame, given the state it is in.
\* compare_textboxes is called when old and new codes are both OPEN/LARGE_TEXT
\* (main.cpp:423, 448; the && short-circuits on the code test).
ReadsChanged(old, code) == old \in OpenCodes /\ code \in OpenCodes

\* empty_textbox is called where the just-opened logic runs (main.cpp:397, 443)
ReadsEmpty(old, insta, code, changed) ==
    \/ old = NONE /\ code \in OpenCodes
    \/ old \in OpenCodes /\ code \in OpenCodes /\ changed /\ insta = FALSE

Frames(codes, old, insta) ==
    { f \in [code : codes, changed : BOOLEAN, empty : BOOLEAN, len : TextLens \cup {0}] :
        /\ (~ReadsChanged(old, f.code)) => f.changed = FALSE
        /\ (~ReadsEmpty(old, insta, f.code, f.changed)) => f.empty = FALSE
        /\ (ReadsEmpty(old, insta, f.code, f.changed) /\ ~f.empty) <=> f.len # 0 }

\* ----------------------------------------------------------------- state
\* main.cpp:350-353, 475-519: the statics of decode, the buffers and the output file
Started ==
    /\ old_textbox = NONE
    /\ insta_textbox = FALSE
    /\ only_second_line = FALSE
    /\ old_frame = 0
    /\ frame_num = 0
    /\ output = <<>>
    /\ log = <<>>
    /\ run = "running"

Init ==
    /\ Started
    /\ call = [fn |-> "none"]
    /\ ret = <<>>

\* main.cpp:358-470: one frame received from the decoder and processed; the
\* decoder supplies at most max frames, with codes among codes
DecodeFrame(codes, max) ==
    /\ run = "running"
    /\ frame_num < max
    /\ \E f \in Frames(codes, old_textbox, insta_textbox) :
        LET n == frame_num + 1
            s == Body(Pass(insta_textbox, only_second_line), old_textbox, f, old_frame, n)
        IN  /\ insta_textbox' = s.insta
            /\ only_second_line' = s.second
            /\ output' = output \o s.out
            /\ old_frame' = copy_data(old_frame, n)
            /\ old_textbox' = f.code
            /\ frame_num' = n
            /\ log' = Append(log, [old |-> old_textbox, new |-> f.code,
                                   changed |-> f.changed, empty |-> f.empty, len |-> f.len,
                                   insta_in |-> insta_textbox, second_in |-> only_second_line,
                                   insta_out |-> s.insta, second_out |-> s.second,
                                   buf_in |-> old_frame,
                                   caps |-> s.caps, out |-> s.out])
    /\ UNCHANGED <<run, call, ret>>

\* main.cpp:522, 535-554: av_read_frame reports the end of the stream
EndOfStream ==
    /\ run = "running"
    /\ run' = "done"
    /\ UNCHANGED <<old_textbox, insta_textbox, only_second_line, old_frame, frame_num,
                   output, log, call, ret>>

\* a video whose frames show any of the six presentations
Decode == DecodeFrame(Codes, MaxFrames)

Next == Decode \/ EndOfStream

Spec == Init /\ [][Next]_vars

\* the synthetic videos of the end-to-end scenarios: frames classified NONE,
\* OPEN or SCROLL_A only
ScenarioCodes == {NONE, OPEN, SCROLL_A}

DecodeScenario == DecodeFrame(ScenarioCodes, ScenarioFrames)

NextScenario == DecodeScenario \/ EndOfStream

SpecScenario == Init /\ [][NextScenario]_vars

\* ------------------------------------------------ one pass of decode's body
\* every frame record: the values decode may read from a frame
AllFrames == [code : Codes, changed : BOOLEAN, empty : BOOLEAN, len : TextLens \cup {0}]

\* the body of decode's loop entered with any previous code, any flags and
\* any frame
PassCalls ==
    [fn : {"decode"}, old : Codes, insta : BOOLEAN, second : BOOLEAN, frame : AllFrames]

InitPass ==
    /\ Started
    /\ call \in PassCalls
    /\ ret = <<>>

\* main.cpp:388-466 on the arguments of call; the history buffer holds frame 1
\* and the frame processed is frame 2
PassReturns ==
    /\ ret = <<>>
    /\ ret' = <<Body(Pass(call.insta, call.second), call.old, call.frame, 1, 2)>>
    /\ UNCHANGED <<machine, call>>

SpecPass == InitPass /\ [][PassReturns]_vars

\* ------------------------------------------------------ frame classifier
\* the nine rectangles textbox() samples (main.cpp:88-137)
Strips == {"bottom_white_line", "left_border", "right_border", "mid_white_line",
           "extra_bottom_white_line", "mid_white_line_2", "mid_white_line_3",
           "mid_white_line_4", "top_white_line"}

\* mutant of textbox: the strip of scroll frame 2 is tested before that of frame 1
textbox_SecondStripFirst(w) ==
    IF w["bottom_white_line"] = FALSE THEN 0
    ELSE IF w["left_border"] = TRUE THEN 0
    ELSE IF w["right_border"] = TRUE THEN 0
    ELSE IF w["mid_white_line"] = FALSE
    THEN IF w["extra_bottom_white_line"] = TRUE /\ w["mid_white_line_3"] = TRUE THEN 3
         ELSE IF w["extra_bottom_white_line"] = TRUE /\ w["mid_white_line_2"] = TRUE THEN 2
         ELSE IF w["extra_bottom_white_line"] = TRUE /\ w["mid_white_line_4"] = TRUE THEN 4
         ELSE IF /\ w["mid_white_line_2"] = FALSE
                 /\ w["mid_white_line_3"] = FALSE
                 /\ w["mid_white_line_4"] = FALSE
         THEN IF w["top_white_line"] = TRUE THEN 5 ELSE 0
         ELSE 0
    ELSE IF w["top_white_line"] = TRUE THEN 1 ELSE 0

\* main.cpp:81-146: the code returned, w[r] being what white_rectangle returns
\* for rectangle r
textbox(w) ==
    IF w["bottom_white_line"] = FALSE THEN 0
    ELSE IF w["left_border"] = TRUE THEN 0
    ELSE IF w["right_border"] = TRUE THEN 0
    ELSE IF w["mid_white_line"] = FALSE
    THEN IF w["extra_bottom_white_line"] = TRUE /\ w["mid_white_line_2"] = TRUE THEN 2
         ELSE IF w["extra_bottom_white_line"] = TRUE /\ w["mid_white_line_3"] = TRUE THEN 3
         ELSE IF w["extra_bottom_white_line"] = TRUE /\ w["mid_white_line_4"] = TRUE THEN 4
         ELSE IF /\ w["mid_white_line_2"] = FALSE
                 /\ w["mid_white_line_3"] = FALSE
                 /\ w["mid_white_line_4"] = FALSE
         THEN IF w["top_white_line"] = TRUE THEN 5 ELSE 0
         ELSE 0
    ELSE IF w["top_white_line"] = TRUE THEN 1 ELSE 0

\* textbox() called on a frame with any nine strip results
TextboxCalls == [fn : {"textbox"}, strips : [Strips -> BOOLEAN]]

InitClassifier ==
    /\ Started
    /\ call \in TextboxCalls
    /\ ret = <<>>

textboxReturns ==
    /\ ret = <<>>
    /\ ret' = <<textbox(call.strips)>>
    /\ UNCHANGED <<machine, call>>

SpecClassifier == InitClassifier /\ [][textboxReturns]_vars

\* -------------------------------------------------------- region sampler
\* the values of an unsigned char
Bytes == 0..255

\* the pixels of a rectangle, in the order the loops of main.cpp:64-73 visit
\* them, each <<red, green, blue>>
PixelSeqs(pixels, max) == UNION { [1..n -> pixels] : n \in 0..max }

\* the counters white and not_white after the loops (main.cpp:62-73)
WhiteCount(rect, color_intensity) ==
    Cardinality({ i \in 1..Len(rect) :
        /\ rect[i][1] > color_intensity
        /\ rect[i][2] > color_intensity
        /\ rect[i][3] > color_intensity })

NotWhiteCount(rect, color_intensity) ==
    Cardinality({ i \in 1..Len(rect) :
        ~ (/\ rect[i][1] > color_intensity
           /\ rect[i][2] > color_intensity
           /\ rect[i][3] > color_intensity) })

\* mutant of white_rectangle: the tolerance scales the white count
white_rectangle_ScalesWhite(rect, non_white_strictness, color_intensity) ==
    LET white == WhiteCount(rect, color_intensity)
        not_white == NotWhiteCount(rect, color_intensity)
    IN  IF not_white * non_white_strictness[2] > non_white_strictness[1] * white
        THEN FALSE
        ELSE TRUE

\* mutant of white_rectangle: a pixel at the threshold counts as white
white_rectangle_AtThreshold(rect, non_white_strictness, color_intensity) ==
    LET white == WhiteCount(rect, color_intensity - 1)
        not_white == NotWhiteCount(rect, color_intensity - 1)
    IN  IF non_white_strictness[1] * not_white > white * non_white_strictness[2]
        THEN FALSE
        ELSE TRUE

\* main.cpp:58-78; non_white_strictness is the double num/den, given as
\* <<num, den>> with den > 0, so that
\* non_white_strictness*not_white > white  iff  num*not_white > white*den
white_rectangle(rect, non_white_strictness, color_intensity) ==
    LET white == WhiteCount(rect, color_intensity)
        not_white == NotWhiteCount(rect, color_intensity)
    IN  IF non_white_strictness[1] * not_white > white * non_white_strictness[2]
        THEN FALSE
        ELSE TRUE

\* thresholds: those of the program (main.cpp:89, 104) and the two extremes
Thresholds == {0, 225, 235, 255}

\* tolerances: 0, 0.02, those of the program (1, 40, 50; main.cpp:89, 104, 154)
Tolerances == {<<0, 1>>, <<1, 50>>, <<1, 1>>, <<40, 1>>, <<50, 1>>}

\* pixels around threshold thr: at it, just above it, at it in one channel
\* only, black and white
SamplePixels(thr) ==
    { p \in {<<thr, thr, thr>>, <<thr + 1, thr + 1, thr + 1>>, <<thr, 255, 255>>,
             <<255, thr, 255>>, <<255, 255, thr>>, <<0, 0, 0>>, <<255, 255, 255>>} :
        \A c \in 1..3 : p[c] \in Bytes }

SamplerCalls ==
    UNION { [fn : {"white_rectangle"}, rect : PixelSeqs(SamplePixels(thr), MaxPixels),
             tol : Tolerances, thr : {thr}] : thr \in Thresholds }

InitSampler ==
    /\ Started
    /\ call \in SamplerCalls
    /\ ret = <<>>

white_rectangleReturns ==
    /\ ret = <<>>
    /\ ret' = <<white_rectangle(call.rect, call.tol, call.thr)>>
    /\ UNCHANGED <<machine, call>>

SpecSampler == InitSampler /\ [][white_rectangleReturns]_vars

\* ------------------------------------------------------- change detector
\* main.cpp:175-182: the difference of one channel
ChannelDiff(a, b) == IF a > b THEN a - b ELSE b - a

\* main.cpp:166-187: changed_pixels after the loops; data_old and data_new are
\* the pixels of the textbox rectangle in the two buffers, in loop order
ChangedPixels(data_old, data_new) ==
    Cardinality({ i \in 1..Len(data_old) :
        \/ ChannelDiff(data_old[i][1], data_new[i][1]) > 50
        \/ ChannelDiff(data_old[i][2], data_new[i][2]) > 50
        \/ ChannelDiff(data_old[i][3], data_new[i][3]) > 50 })

\* mutant of compare_textboxes: a channel counts only where the old one is brighter
compare_textboxes_OneSided(data_old, data_new, x_size) ==
    LET changed_pixels == Cardinality({ i \in 1..Len(data_old) :
            \/ data_old[i][1] - data_new[i][1] > 50
            \/ data_old[i][2] - data_new[i][2] > 50
            \/ data_old[i][3] - data_new[i][3] > 50 })
    IN  IF changed_pixels * 256 * 256 > 300 * x_size * x_size THEN TRUE ELSE FALSE

\* main.cpp:158-195; magnification is x_size / 256 (main.cpp:54), so that
\* changed_pixels > 300 * magnification * magnification
\*   iff  changed_pixels * 256 * 256 > 300 * x_size * x_size
compare_textboxes(data_old, data_new, x_size) ==
    LET changed_pixels == ChangedPixels(data_old, data_new)
    IN  IF changed_pixels * 256 * 256 > 300 * x_size * x_size THEN TRUE ELSE FALSE

\* pixels whose channels differ by 50, by 51 or by much more
ComparePixels == {<<0, 0, 0>>, <<50, 50, 50>>, <<51, 0, 0>>, <<0, 51, 0>>, <<0, 0, 51>>,
                  <<255, 255, 255>>}

\* widths of the top screen region: 300 * magnification^2 is 0.16, 1.03, 2.02
CompareWidths == {6, 15, 21}

\* the two buffers hold rectangles of the same shape; the pixels listed are
\* those on which the two frames may differ (a pixel that is the same in
\* both adds nothing to changed_pixels)
CompareCalls ==
    UNION { [fn : {"compare_textboxes"}, data_old : [1..n -> ComparePixels],
             data_new : [1..n -> ComparePixels], x_size : CompareWidths] : n \in 0..(MaxPixels - 1) }

InitCompare ==
    /\ Started
    /\ call \in CompareCalls
    /\ ret = <<>>

compare_textboxesReturns ==
    /\ ret = <<>>
    /\ ret' = <<compare_textboxes(call.data_old, call.data_new, call.x_size)>>
    /\ UNCHANGED <<machine, call>>

SpecCompare == InitCompare /\ [][compare_textboxesReturns]_vars

\* ------------------------------------------------------ geometry resolver
\* a / b as C computes it on ints: the quotient truncated toward zero (b > 0)
CDiv(a, b) == IF a >= 0 THEN a \div b ELSE -((-a) \div b)

\* std::round of the double n / d (d > 0): to the nearest integer, halves away
\* from zero
Round(n, d) == IF n >= 0 THEN (2 * n + d) \div (2 * d) ELSE -((2 * (-n) + d) \div (2 * d))

\* mutant of top_screen_coords: the region is the whole frame width
top_screen_coords_WholeWidth(width, height) ==
    LET x == CDiv(width, 4)
    IN  [top_left |-> [x |-> x, y |-> 0],
         x_size |-> width,
         y_size |-> height,
         magnification |-> <<width, 256>>]

\* main.cpp:48-55; magnification is the double (width - x) / 256, kept as
\* <<numerator, denominator>>
top_screen_coords(width, height) ==
    LET x == CDiv(width, 4)
    IN  [top_left |-> [x |-> x, y |-> 0],
         x_size |-> width - x,
         y_size |-> height,
         magnification |-> <<width - x, 256>>]

\* std::round(magnification * k)
Scaled(top_screen, k) == Round(top_screen.magnification[1] * k, top_screen.magnification[2])

\* main.cpp:302: the rectangle save_second_line crops from the buffer it is given
save_second_line_part(top_screen) ==
    [top_left |-> [x |-> top_screen.top_left.x + Scaled(top_screen, 13),
                   y |-> top_screen.top_left.y + Scaled(top_screen, 168)],
     x_size |-> Scaled(top_screen, 220),
     y_size |-> Scaled(top_screen, 17)]

\* main.cpp:320: the rectangle copy_data copies into the history buffer
copy_data_part(top_screen) ==
    [top_left |-> [x |-> top_screen.top_left.x + Scaled(top_screen, 13),
                   y |-> top_screen.top_left.y + Scaled(top_screen, 152)],
     x_size |-> Scaled(top_screen, 220),
     y_size |-> Scaled(top_screen, 33)]

\* main.cpp:304-308 and 322-332: the rows and the pixel columns the loops visit
PartRows(part) == part.top_left.y .. (part.top_left.y + part.y_size - 1)
PartColumns(part) == part.top_left.x .. (part.top_left.x + part.x_size - 1)

\* main.cpp:88-137: x_size and y_size of the rectangle textbox() samples for strip r
StripSize(top_screen, r) ==
    IF r \in {"left_border", "right_border"}
    THEN [x_size |-> Scaled(top_screen, 8), y_size |-> top_screen.y_size - Scaled(top_screen, 144)]
    ELSE IF r = "extra_bottom_white_line"
    THEN [x_size |-> Scaled(top_screen, 166), y_size |-> Scaled(top_screen, 2)]
    ELSE [x_size |-> Scaled(top_screen, 166), y_size |-> Scaled(top_screen, 1)]

\* main.cpp:64-77: the loops visit no pixel of a rectangle with a size of zero
\* or less, and white_rectangle returns 1; otherwise the frame decides
StripResults(top_screen) ==
    { w \in [Strips -> BOOLEAN] :
        \A r \in Strips :
            (StripSize(top_screen, r).x_size <= 0 \/ StripSize(top_screen, r).y_size <= 0)
                => w[r] = TRUE }

\* frame sizes the decoder may report: small ones, zero and negative ones, the
\* size at which magnification is 1 and the size of the target videos
Widths == (-4..MaxWidth) \cup {341, 800}
Heights == {-1, 0, 1, 192, 480}

GeometryCalls == [fn : {"top_screen_coords"}, width : Widths, height : Heights]

InitGeometry ==
    /\ Started
    /\ call \in GeometryCalls
    /\ ret = <<>>

\* main.cpp:344-348: the decoder refuses the packet and decode exits
PacketRejected ==
    /\ run = "running"
    /\ ret = <<>>
    /\ run' = "failed"
    /\ UNCHANGED <<old_textbox, insta_textbox, only_second_line, old_frame, frame_num,
                   output, log, call, ret>>

\* main.cpp:355-356: decode resolves the geometry from dec_ctx
top_screen_coordsReturns ==
    /\ run = "running"
    /\ ret = <<>>
    /\ ret' = <<top_screen_coords(call.width, call.height)>>
    /\ UNCHANGED <<machine, call>>

\* main.cpp:377: the frame received is classified with that geometry
FrameClassified ==
    /\ run = "running"
    /\ Len(ret) = 1
    /\ \E w \in StripResults(ret[1]) : ret' = <<ret[1], textbox(w)>>
    /\ UNCHANGED <<machine, call>>

NextGeometry == PacketRejected \/ top_screen_coordsReturns \/ FrameClassified

SpecGeometry == InitGeometry /\ [][NextGeometry]_vars

TypeOK ==
    /\ old_textbox \in Codes
    /\ insta_textbox \in BOOLEAN
    /\ only_second_line \in BOOLEAN
    /\ frame_num \in 0..(MaxFrames + ScenarioFrames)
    /\ old_frame = frame_num
    /\ Len(log) = frame_num
    /\ run \in {"running", "done", "failed"}

\* ------------------------------------------------------------ properties
FrameNums == 1..Len(log)

\* the codes of the frames decoded so far, in order
CodesSeen == [k \in FrameNums |-> log[k].new]

\* the frames, among the first n, on which a capture was requested
CaptureFrames(n) == { k \in 1..n : log[k].caps # <<>> }

\* the rectangle a capture of the history buffer uses (pending-second-line)
PendingRect(second) == IF second THEN "second_line" ELSE "textbox"

\* the result of the just-opened logic on frame k
JustOpenedResult(k) ==
    IF log[k].empty THEN FALSE
    ELSE IF log[k].len > 3 THEN TRUE
    ELSE log[k].insta_in

\* --- C1 ---------------------------------------------------------------
\* End-to-end scenario 1: NONE, NONE, OPEN("Hello"), OPEN("Hello"), NONE,
\* NONE from the initial state, the two OPEN frames identical and not empty.
Scenario1 ==
    /\ Len(log) = 6
    /\ CodesSeen = <<NONE, NONE, OPEN, OPEN, NONE, NONE>>
    /\ log[3].empty = FALSE
    /\ log[3].len = 5
    /\ log[4].changed = FALSE

\* C1 as stated: the scenario emits exactly one capture request, on the 5th
\* frame, taken from the buffered previous frame, and the output receives
\* exactly one line.
C1_OneCaptureOnFifthFrame ==
    Scenario1 =>
        /\ CaptureFrames(6) = {5}
        /\ log[5].caps = <<Capture("old_frame", 4, "textbox")>>
        /\ Len(output) = 1

\* C1 as amended: the scenario emits exactly one capture request, on the 3rd
\* frame (previous NONE, current OPEN), taken from the current frame; it sets
\* insta-textbox, so the 5th frame emits no capture and the output receives
\* no line.
C1_OneCaptureOnThirdFrame ==
    Scenario1 =>
        /\ CaptureFrames(6) = {3}
        /\ log[3].caps = <<Capture("rgb_frame", 3, "textbox")>>
        /\ log[3].insta_out = TRUE
        /\ log[5].caps = <<>>
        /\ output = <<>>

C1_Witness == Scenario1 /\ run = "done"

\* --- C2 ---------------------------------------------------------------
\* frames k, k+1 are the flicker: NONE -> OPEN (not empty, text longer than
\* 3 characters) -> NONE
Flickers(k) ==
    /\ k + 1 \in FrameNums
    /\ log[k].old = NONE
    /\ log[k].new = OPEN
    /\ log[k].empty = FALSE
    /\ log[k].len > 3
    /\ log[k + 1].new = NONE

\* C2: in the flicker scenario the NONE->OPEN frame emits a capture and sets
\* insta-textbox; the following OPEN->NONE frame emits no capture, appends
\* nothing to the output and leaves insta-textbox false.
C2_FlickerCapturedOnce ==
    \A k \in FrameNums :
        Flickers(k) =>
            /\ log[k].caps = <<Capture("rgb_frame", k, "textbox")>>
            /\ log[k].insta_out = TRUE
            /\ log[k + 1].caps = <<>>
            /\ log[k + 1].out = <<>>
            /\ log[k + 1].insta_out = FALSE

C2_Witness == Len(log) = 3 /\ CodesSeen = <<NONE, OPEN, NONE>> /\ Flickers(2)

\* --- C3 ---------------------------------------------------------------
\* End-to-end scenario 3: OPEN, SCROLL_A, SCROLL_A, OPEN, NONE from the
\* initial state, insta-textbox false throughout.
Scenario3 ==
    /\ Len(log) >= 5
    /\ \A k \in 1..5 : log[k].new = <<OPEN, SCROLL_A, SCROLL_A, OPEN, NONE>>[k]
    /\ \A k \in 1..5 : log[k].insta_in = FALSE /\ log[k].insta_out = FALSE

\* the captures the scroll scenario emits from the history buffer
Scenario3Captures ==
    /\ log[2].caps = <<Capture("old_frame", 1, "textbox")>>
    /\ log[3].caps = <<>>
    /\ log[4].caps = <<>>
    /\ log[5].caps = <<Capture("old_frame", 4, "second_line")>>
    /\ log[5].second_in = TRUE
    /\ log[5].second_out = FALSE

\* C3 as stated: a full capture of the previous frame at OPEN->SCROLL_A, where
\* pending-second-line becomes set, and a second-line capture at the final
\* OPEN->NONE, after which pending-second-line is false.
C3_PendingSetAtScrollStart ==
    Scenario3 => Scenario3Captures /\ log[2].second_out = TRUE

\* C3 as amended: the same captures, but pending-second-line is still false at
\* the end of the OPEN->SCROLL_A frame: it becomes set on the next frame, the
\* first whose previous code is SCROLL_A.
C3_PendingSetAfterScrollStart ==
    Scenario3 =>
        /\ Scenario3Captures
        /\ log[2].second_out = FALSE
        /\ log[3].second_out = TRUE
        /\ log[4].second_out = TRUE

C3_Witness == Scenario3 /\ Len(log) = 5

\* --- C4 ---------------------------------------------------------------
\* C4: on every frame with previous code NONE and current code OPEN or
\* LARGE_TEXT, exactly one capture is emitted, of the current frame's full
\* textbox rectangle, and insta-textbox ends false if the textbox is empty,
\* true if it is not empty and the text is longer than 3 characters, and
\* unchanged otherwise.
C4_JustOpenedCapturesCurrent ==
    \A k \in FrameNums :
        (log[k].old = NONE /\ log[k].new \in OpenCodes) =>
            /\ log[k].caps = <<Capture("rgb_frame", k, "textbox")>>
            /\ log[k].insta_out = JustOpenedResult(k)

C4_Witness ==
    \E k, j, i \in FrameNums :
        /\ log[k].old = NONE /\ log[k].new = LARGE_TEXT
        /\ log[k].empty = FALSE /\ log[k].len > 3 /\ insta_textbox = TRUE
        /\ log[j].old = NONE /\ log[j].new = OPEN /\ log[j].empty = TRUE
        /\ log[i].old = NONE /\ log[i].new = OPEN /\ log[i].len = 3

\* --- C5 ---------------------------------------------------------------
\* C5: on every frame with previous code OPEN or LARGE_TEXT, current code NONE
\* and insta-textbox false, exactly one capture is emitted, from the history
\* buffer (the previous frame), of the second-line rectangle if
\* pending-second-line is set and of the full rectangle otherwise; its text is
\* appended to the output and pending-second-line is false afterwards.
C5_ClosedCapturesPrevious ==
    \A k \in FrameNums :
        (log[k].old \in OpenCodes /\ log[k].new = NONE /\ log[k].insta_in = FALSE) =>
            /\ log[k].caps = <<Capture("old_frame", k - 1, PendingRect(log[k].second_in))>>
            /\ Len(log[k].out) = 1
            /\ log[k].out[1].cap = log[k].caps[1]
            /\ log[k].second_out = FALSE

C5_Witness ==
    \E k, j \in FrameNums :
        /\ log[k].old \in OpenCodes /\ log[k].new = NONE
        /\ log[k].insta_in = FALSE /\ log[k].second_in = TRUE
        /\ log[j].old \in OpenCodes /\ log[j].new = NONE
        /\ log[j].insta_in = FALSE /\ log[j].second_in = FALSE

\* --- C6 ---------------------------------------------------------------
\* frame k swaps the content of an open textbox: previous and current codes in
\* {OPEN, LARGE_TEXT}, the Change Detector true
ContentSwapped(k) ==
    /\ log[k].old \in OpenCodes
    /\ log[k].new \in OpenCodes
    /\ log[k].changed = TRUE

\* C6: on a content swap with insta-textbox false on entry, the just-opened
\* logic is re-run on the current frame and its result is the value of
\* insta-textbox at the end of the frame: true when the textbox is not empty
\* and the recognized text is longer than 3 characters, false when it is empty.
C6_SwapReevaluatesInsta ==
    \A k \in FrameNums :
        (ContentSwapped(k) /\ log[k].insta_in = FALSE) =>
            log[k].insta_out = JustOpenedResult(k)

\* --- C7 ---------------------------------------------------------------
\* C7: on a content swap with insta-textbox false on entry, exactly two
\* captures are emitted, in this order: the previous frame from the history
\* buffer (second-line rectangle if pending-second-line is set, else the full
\* rectangle), whose text is appended to the output, then the current frame's
\* full textbox rectangle, whose text is not appended.
C7_SwapCapturesPreviousThenCurrent ==
    \A k \in FrameNums :
        (ContentSwapped(k) /\ log[k].insta_in = FALSE) =>
            /\ log[k].caps = <<Capture("old_frame", k - 1, PendingRect(log[k].second_in)),
                               Capture("rgb_frame", k, "textbox")>>
            /\ Len(log[k].out) = 1
            /\ log[k].out[1].cap = log[k].caps[1]

C7_Witness ==
    \E k, j \in FrameNums :
        /\ ContentSwapped(k) /\ log[k].insta_in = FALSE /\ log[k].second_in = TRUE
        /\ ContentSwapped(j) /\ log[j].insta_in = FALSE /\ log[j].second_in = FALSE

\* --- C8 ---------------------------------------------------------------
\* C8: on a content swap with insta-textbox true on entry, no capture is
\* emitted, nothing is appended to the output, and insta-textbox is false at
\* the end of the frame.
C8_SwapOfInstaTextboxOnlyClears ==
    \A k \in FrameNums :
        (ContentSwapped(k) /\ log[k].insta_in = TRUE) =>
            /\ log[k].caps = <<>>
            /\ log[k].out = <<>>
            /\ log[k].insta_out = FALSE

C8_Witness ==
    \E k \in FrameNums :
        ContentSwapped(k) /\ log[k].insta_in = TRUE /\ insta_textbox = FALSE

\* --- C9 ---------------------------------------------------------------
\* C9: on every frame with previous code OPEN or LARGE_TEXT, current code
\* SCROLL_A, SCROLL_B or SCROLL_C and insta-textbox false, the machine captures
\* the previous frame's content respecting pending-second-line (the second-line
\* rectangle when it is set, the full rectangle otherwise) and appends the
\* recognized text to the output.
C9_ScrollStartRespectsPending ==
    \A k \in FrameNums :
        (log[k].old \in OpenCodes /\ log[k].new \in ScrollCodes /\ log[k].insta_in = FALSE) =>
            /\ log[k].caps = <<Capture("old_frame", k - 1, PendingRect(log[k].second_in))>>
            /\ Len(log[k].out) = 1
            /\ log[k].out[1].cap = log[k].caps[1]

\* --- C10 --------------------------------------------------------------
\* C10: on every frame whose previous code is SCROLL_A, SCROLL_B or SCROLL_C,
\* whatever the current code, pending-second-line is true at the end of the
\* frame and no capture is emitted on that frame.
C10_AfterScrollPendingAndNoCapture ==
    \A k \in FrameNums :
        log[k].old \in ScrollCodes =>
            /\ log[k].second_out = TRUE
            /\ log[k].caps = <<>>
            /\ log[k].out = <<>>

C10_Witness ==
    \E k \in FrameNums :
        /\ log[k].old \in ScrollCodes
        /\ log[k].second_in = FALSE
        /\ only_second_line = TRUE
        /\ \A c \in {NONE, OPEN} : \E j \in FrameNums : log[j].old \in ScrollCodes /\ log[j].new = c

\* --- C11 --------------------------------------------------------------
\* C11: at every frame boundary, if the code of the frame just processed is
\* NONE then insta-textbox is false.
C11_NoInstaWithoutTextbox ==
    /\ old_textbox = NONE => insta_textbox = FALSE
    /\ \A k \in FrameNums : log[k].new = NONE => log[k].insta_out = FALSE

C11_Witness ==
    \E k \in FrameNums :
        /\ log[k].new = NONE
        /\ log[k].insta_in = TRUE
        /\ k = Len(log)
        /\ insta_textbox = FALSE

\* --- C12 --------------------------------------------------------------
\* the writes of all frames decoded so far
AllWritten == UNION { { log[k].out[i] : i \in 1..Len(log[k].out) } : k \in FrameNums }

\* C12 as stated: a full-textbox capture appended to the output is written as
\* one line terminated by a line break, a second-line-only capture as a
\* fragment without a line break.
C12_LineBreakByRectangle ==
    \A i \in 1..Len(output) :
        output[i].endl = (output[i].cap.rect = "textbox")

\* C12 as amended: a capture appended when a scroll starts (current code
\* SCROLL_A, SCROLL_B or SCROLL_C), always a full-textbox capture, is written
\* as a fragment without a line break; every other capture appended to the
\* output (at a close or a content swap), full-textbox or second-line-only, is
\* written as one line terminated by a line break.
C12_LineBreakUnlessScrollStarts ==
    /\ \A k \in FrameNums : \A i \in 1..Len(log[k].out) :
        /\ log[k].out[i].endl = (log[k].new \notin ScrollCodes)
        /\ log[k].new \in ScrollCodes => log[k].out[i].cap.rect = "textbox"
    /\ \A i \in 1..Len(output) : output[i] \in AllWritten

C12_Witness ==
    /\ \E i \in 1..Len(output) : output[i].cap.rect = "textbox" /\ output[i].endl
    /\ \E i \in 1..Len(output) : output[i].cap.rect = "textbox" /\ ~output[i].endl
    /\ \E i \in 1..Len(output) : output[i].cap.rect = "second_line" /\ output[i].endl

\* --- C13 --------------------------------------------------------------
\* C13: for every combination of previous code, current code, flag values,
\* Change Detector result and Emptiness Test result, processing one frame
\* emits zero, one or two capture requests, never more.
C13_AtMostTwoCaptures ==
    ret # <<>> => Len(ret[1].caps) \in {0, 1, 2}

C13_Witness ==
    /\ ret # <<>>
    /\ Len(ret[1].caps) = 2
    /\ call.old = LARGE_TEXT /\ call.insta = FALSE /\ call.second = TRUE
    /\ call.frame.code = OPEN /\ call.frame.changed /\ call.frame.empty

\* --- C20 --------------------------------------------------------------
\* the captures of frame k that read the history buffer
BufferCaptures(k) ==
    { i \in 1..Len(log[k].caps) : log[k].caps[i].buf = "old_frame" }

TreeCode(w) ==
    LET thin == w["bottom_white_line"]
        thick == w["extra_bottom_white_line"]
        mid == w["mid_white_line"]
        alt1 == w["mid_white_line_2"]
        alt2 == w["mid_white_line_3"]
        alt3 == w["mid_white_line_4"]
        top == w["top_white_line"]
    IN  CASE ~thin \/ w["left_border"] \/ w["right_border"] -> NONE
          [] OTHER ->
             CASE mid /\ top -> OPEN
               [] mid /\ ~top -> NONE
               [] OTHER ->
                  CASE thick /\ alt1 -> SCROLL_A
                    [] thick /\ ~alt1 /\ alt2 -> SCROLL_B
                    [] thick /\ ~alt1 /\ ~alt2 /\ alt3 -> SCROLL_C
                    [] OTHER ->
                       CASE ~alt1 /\ ~alt2 /\ ~alt3 /\ top -> LARGE_TEXT
                         [] ~alt1 /\ ~alt2 /\ ~alt3 /\ ~top -> NONE
                         [] OTHER -> NONE

\* C14: for every combination of the nine strip results the Frame Classifier
\* returns the code of the specified decision tree, a code in all cases (the
\* anomalous combinations give NONE).
C14_ClassifierIsDecisionTree ==
    ret # <<>> => (ret[1] = TreeCode(call.strips) /\ ret[1] \in Codes)

\* an anomalous combination: no thick bottom strip, but an alternative mid strip
C14_Witness ==
    /\ ret = <<NONE>>
    /\ call.strips["bottom_white_line"]
    /\ ~call.strips["left_border"] /\ ~call.strips["right_border"]
    /\ ~call.strips["mid_white_line"]
    /\ ~call.strips["extra_bottom_white_line"]
    /\ call.strips["mid_white_line_3"]
    /\ call.strips["top_white_line"]

\* --- C15 --------------------------------------------------------------
\* the smallest channel of pixel p
MinChannel(p) == CHOOSE c \in {p[1], p[2], p[3]} : \A d \in {p[1], p[2], p[3]} : c <= d

\* the pixels of the call's rectangle that are white: all three channels
\* strictly greater than the threshold
WhitePixels == { i \in 1..Len(call.rect) : MinChannel(call.rect[i]) >= call.thr + 1 }

\* C15: the Region Sampler counts a pixel as white iff all three channels are
\* strictly greater than the threshold (all channels at the threshold: not
\* white; all at threshold+1: white) and returns true iff
\* tolerance * not_white_count <= white_count.
C15_SamplerCountsStrictlyAbove ==
    ret # <<>> =>
        LET white == Cardinality(WhitePixels)
            not_white == Len(call.rect) - white
        IN  /\ ret[1] = (call.tol[1] * not_white <= white * call.tol[2])
            /\ \A i \in 1..Len(call.rect) :
                /\ call.rect[i] = <<call.thr, call.thr, call.thr>> => i \notin WhitePixels
                /\ call.rect[i] = <<call.thr + 1, call.thr + 1, call.thr + 1>> => i \in WhitePixels
            /\ (/\ call.rect # <<>>
                /\ call.tol[1] > 0
                /\ \A i \in 1..Len(call.rect) : call.rect[i] = <<call.thr, call.thr, call.thr>>)
               => ret[1] = FALSE
            /\ (\A i \in 1..Len(call.rect) : call.rect[i] = <<call.thr + 1, call.thr + 1, call.thr + 1>>)
               => ret[1] = TRUE

C15_Witness ==
    /\ ret = <<TRUE>>
    /\ call.thr = 235
    /\ call.tol = <<1, 1>>
    /\ call.rect = <<<<235, 235, 235>>, <<236, 236, 236>>>>

\* --- C16 --------------------------------------------------------------
\* tolerance s is at most tolerance t
TolLeq(s, t) == s[1] * t[2] <= t[1] * s[2]

\* C16 as stated: for fixed pixels, rectangle and threshold and tolerances
\* t1 <= t2, if the sampler returns true with t1 it returns true with t2.
C16_TrueStaysTrueAsToleranceGrows ==
    (ret = <<TRUE>>) =>
        \A t2 \in Tolerances :
            TolLeq(call.tol, t2) => white_rectangle(call.rect, t2, call.thr) = TRUE

\* C16 as amended: for fixed pixels, rectangle and threshold and tolerances
\* t1 <= t2, if the sampler returns true with t2 it returns true with t1
\* (increasing the tolerance can turn a true result into false but never a
\* false result into true).
C16_TrueStaysTrueAsToleranceShrinks ==
    (ret = <<TRUE>>) =>
        \A t1 \in Tolerances :
            TolLeq(t1, call.tol) => white_rectangle(call.rect, t1, call.thr) = TRUE

\* true with tolerance 1, and false with the larger tolerance 40
C16_Witness ==
    /\ ret = <<TRUE>>
    /\ call.tol = <<1, 1>>
    /\ call.thr = 225
    /\ NotWhiteCount(call.rect, call.thr) = 1
    /\ white_rectangle(call.rect, <<40, 1>>, call.thr) = FALSE

\* --- C17 --------------------------------------------------------------
\* |a - b|
AbsDiff(a, b) == CHOOSE d \in {a - b, b - a} : d >= 0

\* the pixels of the call that changed: some channel differs by more than 50
\* in absolute value
ChangedSet ==
    { i \in 1..Len(call.data_old) :
        \E c \in 1..3 : AbsDiff(call.data_old[i][c], call.data_new[i][c]) > 50 }

\* C17: changed(A,B) equals changed(B,A) for two frames of the same shape and
\* the same Geometry, where a pixel counts as changed iff some channel differs
\* by more than 50 in absolute value and the result is true iff the
\* changed-pixel count exceeds 300 * scale^2 (scale = x_size / 256).
C17_ChangeDetectorSymmetric ==
    ret # <<>> =>
        /\ ret[1] = compare_textboxes(call.data_new, call.data_old, call.x_size)
        /\ ret[1] = (Cardinality(ChangedSet) * 65536 > 300 * call.x_size * call.x_size)

\* two changed pixels, one brighter in the old frame and one in the new, at
\* a scale where one changed pixel is not enough
C17_Witness ==
    /\ ret = <<TRUE>>
    /\ call.x_size = 15
    /\ call.data_old = <<<<51, 0, 0>>, <<0, 0, 0>>>>
    /\ call.data_new = <<<<0, 0, 0>>, <<0, 0, 51>>>>

\* --- C18 --------------------------------------------------------------
\* C18: for every positive frame width and height the Geometry Resolver
\* returns top-left x = width/4 (integer division), y = 0, region width =
\* width - x, region height = height and scale = region width / 256; width 800
\* and height 480 give top-left (200,0), size 600x480 and scale 600/256.
C18_GeometryOfPositiveFrame ==
    (ret # <<>> /\ call.width > 0 /\ call.height > 0) =>
        LET g == ret[1]
        IN  /\ g.top_left.x = call.width \div 4
            /\ g.top_left.y = 0
            /\ g.x_size = call.width - g.top_left.x
            /\ g.y_size = call.height
            /\ g.magnification[1] * 256 = g.x_size * g.magnification[2]
            /\ (call.width = 800 /\ call.height = 480) =>
                /\ g.top_left = [x |-> 200, y |-> 0]
                /\ g.x_size = 600
                /\ g.y_size = 480
                /\ g.magnification[1] * 256 = 600 * g.magnification[2]

C18_Witness ==
    /\ call.width = 800
    /\ call.height = 480
    /\ Len(ret) = 2
    /\ ret[1].x_size = 600
    /\ ret[2] = LARGE_TEXT

\* --- C19 --------------------------------------------------------------
\* C19: when the frame width or height is zero or negative the Geometry
\* Resolver fails fast: no Geometry is produced and no frame is classified
\* with it.
C19_NoGeometryOfBadFrame ==
    (call.width <= 0 \/ call.height <= 0) => ret = <<>>

\* --- C21 --------------------------------------------------------------
\* frame j opens a textbox: previous code NONE, current code OPEN or LARGE_TEXT
Opening(j) == log[j].old = NONE /\ log[j].new \in OpenCodes

\* no frame strictly between j and k has a scroll code
NoScrollBetween(j, k) == \A i \in (j + 1)..(k - 1) : log[i].new \notin ScrollCodes

\* C21: pending-second-line never carries over from one textbox to the next:
\* when a NONE -> {OPEN, LARGE_TEXT} opening is followed by a capture of that
\* textbox (a capture of the history buffer) with no SCROLL_A, SCROLL_B or
\* SCROLL_C frame between the opening and the capture, that capture uses the
\* full textbox rectangle, not the second-line rectangle.
C21_PendingNeverCarriesOver ==
    \A j \in FrameNums : \A k \in FrameNums :
        (j < k /\ Opening(j) /\ NoScrollBetween(j, k)) =>
            \A i \in BufferCaptures(k) : log[k].caps[i].rect = "textbox"

\* --- C22 --------------------------------------------------------------
\* the captures of frame k that read the current frame
CurrentCaptures(k) ==
    { i \in 1..Len(log[k].caps) : log[k].caps[i].buf = "rgb_frame" }

\* the writes of the frames decoded so far, in the order of the frames
RECURSIVE WrittenUpTo(_)
WrittenUpTo(k) == IF k = 0 THEN <<>> ELSE WrittenUpTo(k - 1) \o log[k].out

\* C22: every text appended to the output comes from a capture of the history
\* buffer (the previous frame); the text recognized from a capture of the
\* current frame (at NONE -> {OPEN, LARGE_TEXT} or at the re-run of the
\* just-opened logic) is never appended to the output.
C22_OutputOnlyFromHistoryBuffer ==
    /\ output = WrittenUpTo(Len(log))
    /\ \A i \in 1..Len(output) : output[i].cap.buf = "old_frame"
    /\ \A k \in FrameNums :
        /\ \A i \in 1..Len(log[k].out) :
            /\ log[k].out[i].cap = Capture("old_frame", k - 1, log[k].out[i].cap.rect)
            /\ \E c \in BufferCaptures(k) : log[k].caps[c] = log[k].out[i].cap
        /\ \A c \in CurrentCaptures(k) :
            /\ log[k].caps[c].frame = k
            /\ \A i \in 1..Len(output) : output[i].cap # log[k].caps[c]

C22_Witness ==
    \E j, k \in FrameNums :
        /\ Opening(j) /\ CurrentCaptures(j) # {} /\ log[j].len > InstaLen /\ log[j].out = <<>>
        /\ ContentSwapped(k) /\ CurrentCaptures(k) # {} /\ log[k].len > InstaLen
        /\ Len(log[k].out) = 1
        /\ Len(output) >= 2

\* --- C23 --------------------------------------------------------------
\* C23: for every frame width (scale = (width - width/4) / 256, offsets rounded
\* to the nearest pixel) the second-line capture rectangle (reference offset
\* 13,168, size 220x17) lies entirely inside the rectangle copied into the
\* history buffer (reference offset 13,152, size 220x33), that is
\* round(168 s) + round(17 s) <= round(152 s) + round(33 s), so a second-line
\* capture of the previous frame never reads a row the history buffer did not
\* copy.
C23_SecondLineInsideCopied ==
    (ret # <<>> /\ call.width > 0 /\ call.height > 0) =>
        LET g == ret[1]
            second == save_second_line_part(g)
            copied == copy_data_part(g)
        IN  /\ Scaled(g, 168) + Scaled(g, 17) <= Scaled(g, 152) + Scaled(g, 33)
            /\ PartRows(second) \subseteq PartRows(copied)
            /\ PartColumns(second) \subseteq PartColumns(copied)
====
